---- MODULE Spec2Model ----
(***************************************************************************)
(* Model of the Serializer orchestrator of prepack                         *)
(* (src/serializer/serializer.js): Serializer._execute and Serializer.init.*)
(*                                                                         *)
(* init is one synchronous method.  It is modelled as a program counter    *)
(* walking through its statements, one action per call to a collaborator   *)
(* (interpreter, modules, functions, visitor, serializers) together with   *)
(* the orchestrator code that surrounds that call.  The collaborators are  *)
(* not part of this file; what a collaborator does to the orchestrator's   *)
(* state is a nondeterministic choice:                                     *)
(*   - a collaborator that is handed the logger may record an error in it; *)
(*   - executeSources returns a normal or an abrupt completion;            *)
(*   - logger.logCompletion may return or raise (the code wraps it in      *)
(*     try/finally);                                                       *)
(*   - checkThatFunctionsAreIndependent may raise FatalError.              *)
(***************************************************************************)
EXTENDS Naturals, Sequences, FiniteSets

VARIABLES
  pc,            \* position inside init / _execute
  options,       \* this.options (SerializerOptions)
  reactEnabled,  \* this.realm.react.enabled
  stripFlow,     \* this.realm.stripFlow
  res,           \* completion returned by executeSources
  logErrors,     \* the logger: names of the calls that recorded an error
  diagnostics,   \* diagnostics reported through realm.handleError, in order
  contextStack,  \* realm.contextStack
  context,       \* local `context` of _execute (0: not created)
  stackAtPush,   \* realm.contextStack at the time of realm.pushContext
  poppedContext, \* frame removed by realm.popContext (0: none)
  logOutcome,    \* how logger.logCompletion ended ("none": not called)
  idMode,        \* state of residualHeapValueIdentifiers
  serializers,   \* serializer variants constructed so far, in order
  trace,         \* calls made so far, in order
  outcome,       \* how init ended: "running", "bundle", "undefined", "throw"
  thrown,        \* exception that left init ("none" while there is none)
  bundle,        \* the returned SerializedResult
  sources,       \* the program handed to init
  nextId,        \* EnvironmentRecord.nextId
  environmentRecordIdAfterGlobalCode, \* local of init (0: not yet read)
  cutoffArgs,    \* the cutoffs handed to the Functions collaborator, in order
  laterEnvs,     \* identifiers of the environments created after _execute
  writeEffects,  \* functions of the additional-function mapping
  checkedFunctions, \* functions the independence check has covered
  additionalFunctionValuesAndEffects, \* local of init
  forbiddenNames,   \* preludeGenerator.nameGenerator.forbiddenNames
  uidCounter,    \* the name generators created by init: prefix -> next uid
  generatedNames,   \* names generated by the phases behind _execute
  now,           \* the last value of Date.now()
  timingStats,   \* local of init
  cumulativeTimes,  \* per field, the durations measured over all calls
  calls          \* number of calls of init so far

\* The state of the pipeline of one call of init.
pipeVars == <<pc, options, reactEnabled, stripFlow, res, logErrors,
              diagnostics, contextStack, context, stackAtPush, poppedContext,
              logOutcome, idMode, serializers, trace, outcome, thrown, bundle>>

\* The environment counter and the cutoff.
envVars == <<nextId, environmentRecordIdAfterGlobalCode, cutoffArgs, laterEnvs>>

\* The additional-function mapping.
fnVars == <<writeEffects, checkedFunctions, additionalFunctionValuesAndEffects>>

\* The name generators.
nameVars == <<forbiddenNames, uidCounter, generatedNames>>

\* The clock and the timing statistics.
timeVars == <<now, timingStats, cumulativeTimes>>

vars == <<pipeVars, sources, envVars, fnVars, nameVars, timeVars, calls>>

\* What init only reads: the options and the realm's settings.
config == <<options, reactEnabled, stripFlow>>

\* Largest depth of realm.contextStack when init is called.
MaxContextDepth == 1

\* Values of options.lazyObjectsRuntime: undefined, null, the empty string
\* and the name of a runtime.
LazyObjectsRuntimeValues == {"<undefined>", "<null>", "", "LazyObjectsRuntime"}

\* Largest value of Date.now() (the clock starts at 0).
MaxNow == 2

\* The most calls of init on one Serializer.
MaxCalls == 2

\* A name: the prefix of a name generator followed by a uid.
Name(prefix, uid) == [prefix |-> prefix, uid |-> uid]

\* An AST node: its type and, if it has one, its name or value.
Node(type, name) == [type |-> type, name |-> name]

\* The programs init is run on.  A program is the AST of its source units
\* in traversal order, the number of environments its global code creates,
\* the functions its global code registers for independent optimization,
\* the React component tree roots it registers, and the number of modules it
\* leaves uninitialized.
Programs ==
  { [ast |-> <<>>, environments |-> 0, optimizedFunctions |-> {},
     reactRoots |-> {}, modules |-> 0],
    [ast |-> <<Node("Identifier", Name("$", 0)),
               Node("StringLiteral", Name("__scope_", 0))>>,
     environments |-> 1, optimizedFunctions |-> {"f"},
     reactRoots |-> {}, modules |-> 1],
    [ast |-> <<Node("Identifier", Name("__scope_", 0)),
               Node("Identifier", Name("$", 1)),
               Node("Identifier", Name("x", 0))>>,
     environments |-> 1, optimizedFunctions |-> {"f", "g"},
     reactRoots |-> {"App"}, modules |-> 0] }

\* The callback reserving the name of the first node only.
IdentifierNamesFirstOnly(ast) ==
  {ast[i].name : i \in {j \in DOMAIN ast : j = 1 /\ ast[j].type = "Identifier"}}

\* _execute, lines 78-83: the names the callback of traverseFast adds to
\* forbiddenNames, those of the Identifier nodes of the AST.
IdentifierNames(ast) ==
  {ast[i].name : i \in {j \in DOMAIN ast : ast[j].type = "Identifier"}}

\* NameGenerator.generate: the first uid from `uid` on whose name is not
\* forbidden.
RECURSIVE FirstFreeUid(_, _, _)
FirstFreeUid(prefix, uid, forbidden) ==
  IF Name(prefix, uid) \in forbidden
    THEN FirstFreeUid(prefix, uid + 1, forbidden)
    ELSE uid

\* The fields of TimingStatistics that init writes.
TimingFields ==
  {"totalTime", "globalCodeTime", "initializeMoreModulesTime",
   "deepTraversalTime", "referenceCountsTime", "serializePassTime"}

\* init, line 103: timingStats of a run without options.profile (undefined).
NoTiming ==
  [present |-> FALSE, totalTime |-> 0, globalCodeTime |-> 0,
   initializeMoreModulesTime |-> 0, deepTraversalTime |-> 0,
   referenceCountsTime |-> 0, serializePassTime |-> 0]

\* init, line 103: new TimingStatistics().
NewTimingStatistics == [NoTiming EXCEPT !.present = TRUE]

\* `if (timingStats !== undefined) timingStats.f = Date.now();` at time t.
TimerStart(ts, f, t) == IF ts.present THEN [ts EXCEPT ![f] = t] ELSE ts

\* `if (timingStats !== undefined) timingStats.f = Date.now() - timingStats.f;`
\* at time t.
TimerStop(ts, f, t) == IF ts.present THEN [ts EXCEPT ![f] = t - ts[f]] ELSE ts

\* The durations measured so far, with the one TimerStop(ts, f, t) measures.
Accumulate(cum, ts, f, t) ==
  IF ts.present THEN [cum EXCEPT ![f] = @ + (t - ts[f])] ELSE cum

\* The time a collaborator call may take on the clock init reads.  Date.now
\* is read under options.profile only.
Durations == IF options.profile THEN 0..(MaxNow - now) ELSE {0}

\* The identifiers of the n environments created from nextId on.
NewEnvs(n) == nextId..(nextId + n - 1)

\* The option fields init reads.
SerializerOptions ==
  [profile : BOOLEAN, initializeMoreModules : BOOLEAN,
   heapGraphFormat : BOOLEAN, inlineExpressions : BOOLEAN,
   lazyObjectsRuntime : LazyObjectsRuntimeValues]

\* Value of `bundle` while init has returned nothing.
NoBundle ==
  [code |-> FALSE, reactStatistics |-> FALSE, timingStats |-> NoTiming,
   heapGraph |-> FALSE]

\* What logger.logCompletion may do: return, or raise one of two errors.
LogCompletionOutcomes == {"returns", "FatalError", "Error"}

\* What functions.checkThatFunctionsAreIndependent may do: return, or fail
\* with a fatal error on a violation of the independence invariant.
IndependenceOutcomes == {"returns", "FatalError"}

\* l != null in JavaScript: false of null and of undefined only.
NotNull(l) == l \notin {"<null>", "<undefined>"}

\* l !== null: false of null only.
NotStrictlyNull(l) == l # "<null>"

\* The choice of line 226 made with !== in place of !=.
TargetSerializerStrict(l) ==
  IF NotStrictlyNull(l) THEN "LazyObjectsSerializer"
                        ELSE "ResidualHeapSerializer"

\* init, line 226: the serializer class of the final pass.
TargetSerializer(l) ==
  IF NotNull(l) THEN "LazyObjectsSerializer" ELSE "ResidualHeapSerializer"

\* init, lines 200-217: the arguments of the pass-1 serializer.
Pass1Arguments ==
  <<"realm", "logger", "modules", "residualHeapValueIdentifiers",
    "residualHeapVisitor.inspector", "residualHeapVisitor.values",
    "residualHeapVisitor.functionInstances",
    "residualHeapVisitor.classMethodInstances",
    "residualHeapVisitor.functionInfos", "options",
    "residualHeapVisitor.referencedDeclaredValues",
    "additionalFunctionValuesAndEffects",
    "residualHeapVisitor.additionalFunctionValueInfos",
    "residualHeapVisitor.declarativeEnvironmentRecordsBindings",
    "statistics", "react", "referentializer",
    "residualHeapVisitor.generatorParents">>

\* init, lines 228-245: the arguments of the final serializer.
FinalArguments ==
  <<"realm", "logger", "modules", "residualHeapValueIdentifiers",
    "residualHeapVisitor.inspector", "residualHeapVisitor.values",
    "residualHeapVisitor.functionInstances",
    "residualHeapVisitor.classMethodInstances",
    "residualHeapVisitor.functionInfos", "options",
    "residualHeapVisitor.referencedDeclaredValues",
    "additionalFunctionValuesAndEffects",
    "residualHeapVisitor.additionalFunctionValueInfos",
    "residualHeapVisitor.declarativeEnvironmentRecordsBindings",
    "statistics", "react", "referentializer",
    "residualHeapVisitor.generatorParents">>

\* A serializer under construction: its class, its arguments, and the mode
\* the value identifier table is in when the serializer runs.
NewSerializer(class, arguments, mode) ==
  [variant |-> class, arguments |-> arguments, idMode |-> mode]

\* this.logger.hasErrors()
hasErrors == logErrors # {}

\* A collaborator call `name` that recorded an error in the logger iff err.
LogError(name, err) == IF err THEN logErrors \cup {name} ELSE logErrors

\* realm.popContext(context): removes the top frame of the context stack.
popContext(stack) == SubSeq(stack, 1, Len(stack) - 1)

Init ==
  /\ pc = "execute"
  /\ options \in SerializerOptions
  /\ reactEnabled \in BOOLEAN
  /\ stripFlow \in BOOLEAN
  /\ res = "none"
  /\ logErrors = {}
  /\ diagnostics = <<>>
  /\ \E d \in 0..MaxContextDepth : contextStack = [i \in 1..d |-> i]
  /\ context = 0
  /\ stackAtPush = <<>>
  /\ poppedContext = 0
  /\ logOutcome = "none"
  /\ idMode = "none"
  /\ serializers = <<>>
  /\ trace = <<>>
  /\ outcome = "running"
  /\ thrown = "none"
  /\ bundle = NoBundle
  /\ sources \in Programs
  /\ nextId = 1
  /\ environmentRecordIdAfterGlobalCode = 0
  /\ cutoffArgs = <<>>
  /\ laterEnvs = {}
  /\ writeEffects = {}
  /\ checkedFunctions = {}
  /\ additionalFunctionValuesAndEffects = {}
  /\ forbiddenNames = {}
  /\ uidCounter = <<>>
  /\ generatedNames = {}
  /\ now = 0
  /\ timingStats = NoTiming
  /\ cumulativeTimes = [f \in TimingFields |-> 0]
  /\ calls = 1

\* `return undefined;`
ReturnUndefined ==
  /\ pc' = "done"
  /\ outcome' = "undefined"
  /\ UNCHANGED <<thrown, bundle>>

\* `throw e` leaving init.
Throw(e) ==
  /\ pc' = "done"
  /\ outcome' = "throw"
  /\ thrown' = e
  /\ UNCHANGED bundle

\* Control moves on to the statement labelled next.
Goto(next) ==
  /\ pc' = next
  /\ UNCHANGED <<outcome, thrown, bundle>>

\* The variables behind the pipeline state stay as they are.
Untouched == UNCHANGED <<sources, envVars, fnVars, nameVars, timeVars, calls>>

\* init, lines 103-107, and _execute, lines 74-84: the timing statistics
\* are created and started, the global code runs: its identifiers become
\* forbidden names and its environments are created.
ExecuteData ==
  /\ timingStats' =
       (IF options.profile
          THEN TimerStart(TimerStart(NewTimingStatistics, "totalTime", now),
                          "globalCodeTime", now)
          ELSE NoTiming)
  /\ forbiddenNames' = forbiddenNames \cup IdentifierNames(sources.ast)
  /\ nextId' = nextId + sources.environments
  /\ \E d \in Durations : now' = now + d
  /\ UNCHANGED <<sources, environmentRecordIdAfterGlobalCode, cutoffArgs,
                 laterEnvs, fnVars, uidCounter, generatedNames,
                 cumulativeTimes, calls>>

\* init, lines 112-113: the cutoff is read, the global code timer stopped.
AfterExecuteData ==
  /\ environmentRecordIdAfterGlobalCode' = nextId
  /\ timingStats' = TimerStop(timingStats, "globalCodeTime", now)
  /\ cumulativeTimes' =
       Accumulate(cumulativeTimes, timingStats, "globalCodeTime", now)
  /\ UNCHANGED <<sources, nextId, cutoffArgs, laterEnvs, fnVars, nameVars,
                 now, calls>>

\* init, line 116: the independence check is handed the cutoff; it runs
\* each registered function in an environment of its own, enters it into
\* the mapping and checks the functions of the mapping against each other.
IndependenceData ==
  /\ cutoffArgs' =
       Append(cutoffArgs, [to |-> "checkThatFunctionsAreIndependent",
                           cutoff |-> environmentRecordIdAfterGlobalCode])
  /\ writeEffects' = writeEffects \cup sources.optimizedFunctions
  /\ checkedFunctions' = writeEffects'
  /\ nextId' = nextId + Cardinality(sources.optimizedFunctions)
  /\ laterEnvs' =
       laterEnvs \cup NewEnvs(Cardinality(sources.optimizedFunctions))
  /\ UNCHANGED <<sources, environmentRecordIdAfterGlobalCode,
                 additionalFunctionValuesAndEffects, nameVars, timeVars,
                 calls>>

\* The React root optimization handed the counter as it is now.
ReactDataCurrentId ==
  IF reactEnabled
    THEN /\ cutoffArgs' =
              Append(cutoffArgs, [to |-> "optimizeReactComponentTreeRoots",
                                  cutoff |-> nextId])
         /\ writeEffects' = writeEffects \cup sources.reactRoots
         /\ nextId' = nextId + Cardinality(sources.reactRoots)
         /\ laterEnvs' = laterEnvs \cup NewEnvs(Cardinality(sources.reactRoots))
         /\ UNCHANGED <<sources, environmentRecordIdAfterGlobalCode,
                        checkedFunctions, additionalFunctionValuesAndEffects,
                        nameVars, timeVars, calls>>
    ELSE Untouched

\* init, lines 118-121: with React enabled the root optimization is handed
\* the cutoff; it runs each component tree root in an environment of its
\* own and enters it into the mapping.
ReactData ==
  IF reactEnabled
    THEN /\ cutoffArgs' =
              Append(cutoffArgs, [to |-> "optimizeReactComponentTreeRoots",
                                  cutoff |-> environmentRecordIdAfterGlobalCode])
         /\ writeEffects' = writeEffects \cup sources.reactRoots
         /\ nextId' = nextId + Cardinality(sources.reactRoots)
         /\ laterEnvs' = laterEnvs \cup NewEnvs(Cardinality(sources.reactRoots))
         /\ UNCHANGED <<sources, environmentRecordIdAfterGlobalCode,
                        checkedFunctions, additionalFunctionValuesAndEffects,
                        nameVars, timeVars, calls>>
    ELSE Untouched

\* A phase timed in field f that takes d on the clock: the timer is started
\* in front of the call and stopped behind it, unless init returned at the
\* checkpoint in between.
Timed(f, d, returned) ==
  /\ now' = now + d
  /\ IF returned
       THEN /\ timingStats' = TimerStart(timingStats, f, now)
            /\ UNCHANGED cumulativeTimes
       ELSE /\ timingStats' = TimerStop(TimerStart(timingStats, f, now),
                                        f, now')
            /\ cumulativeTimes' =
                 [cumulativeTimes EXCEPT
                    ![f] = IF timingStats.present THEN @ + d ELSE @]

\* init, lines 124-128: with initializeMoreModules the modules left are
\* initialized, each in an environment of its own;
\* initializeMoreModulesTime is measured.
InitializeMoreModulesData(returned) ==
  IF options.initializeMoreModules
    THEN /\ nextId' = nextId + sources.modules
         /\ laterEnvs' = laterEnvs \cup NewEnvs(sources.modules)
         /\ \E d \in Durations :
              Timed("initializeMoreModulesTime", d, returned)
         /\ UNCHANGED <<sources, environmentRecordIdAfterGlobalCode,
                        cutoffArgs, fnVars, nameVars, calls>>
    ELSE Untouched

\* A name generator with prefix `prefix` generates one name.
GenerateName(prefix, counters) ==
  LET uid == FirstFreeUid(prefix, counters[prefix], forbiddenNames)
  IN /\ generatedNames' = generatedNames \cup {Name(prefix, uid)}
     /\ uidCounter' = [counters EXCEPT ![prefix] = uid + 1]

\* init, lines 131-156: the mapping of the additional functions is fetched,
\* the two name generators of the referentializer are created, the heap is
\* visited (a scope name is generated); deepTraversalTime is measured.
VisitHeapData(returned) ==
  /\ additionalFunctionValuesAndEffects' = writeEffects
  /\ GenerateName("__scope_", [p \in {"__scope_", "$"} |-> 0])
  /\ \E d \in Durations : Timed("deepTraversalTime", d, returned)
  /\ UNCHANGED <<sources, envVars, writeEffects, checkedFunctions,
                 forbiddenNames, calls>>

\* init, lines 196-222: the dry run generates a name; referenceCountsTime
\* is measured.
Pass1Data(returned) ==
  /\ GenerateName("$", uidCounter)
  /\ \E d \in Durations : Timed("referenceCountsTime", d, returned)
  /\ UNCHANGED <<sources, envVars, fnVars, forbiddenNames, calls>>

\* init, lines 225-248: the timer of the final pass is started, the final
\* pass generates a name.
FinalSerializeData ==
  /\ GenerateName("$", uidCounter)
  /\ timingStats' = TimerStart(timingStats, "serializePassTime", now)
  /\ \E d \in Durations : now' = now + d
  /\ UNCHANGED <<sources, envVars, fnVars, forbiddenNames, cumulativeTimes,
                 calls>>

\* init, lines 255-258: the timers of the final pass and of init are stopped.
GenerateData ==
  /\ timingStats' =
       TimerStop(TimerStop(timingStats, "serializePassTime", now),
                 "totalTime", now)
  /\ cumulativeTimes' =
       Accumulate(Accumulate(cumulativeTimes, timingStats,
                             "serializePassTime", now),
                  timingStats, "totalTime", now)
  /\ UNCHANGED <<sources, envVars, fnVars, nameVars, now, calls>>

\* _execute, lines 74-86: run the sources; branch on the completion.
Execute ==
  /\ pc = "execute"
  /\ \E r \in {"normal", "abrupt"}, err \in BOOLEAN :
       /\ res' = r
       /\ logErrors' = LogError("executeSources", err)
       /\ Goto(IF r = "abrupt" THEN "pushContext" ELSE "afterExecute")
  /\ trace' = Append(trace, "executeSources")
  /\ UNCHANGED <<config, logOutcome, diagnostics, contextStack,
                 context, stackAtPush, poppedContext, idMode, serializers>>
  /\ ExecuteData

\* _execute, lines 87-88: push the synthetic execution context.
PushContext ==
  /\ pc = "pushContext"
  /\ context' = Len(contextStack) + 1
  /\ stackAtPush' = contextStack
  /\ contextStack' = Append(contextStack, Len(contextStack) + 1)
  /\ trace' = Append(trace, "pushContext")
  /\ Goto("logCompletion")
  /\ UNCHANGED <<config, logOutcome, res, logErrors, diagnostics,
                 poppedContext, idMode, serializers>>
  /\ Untouched

\* The same without the finally: the frame stays when logging raises.
LogCompletionNoFinally ==
  /\ pc = "logCompletion"
  /\ trace' = Append(trace, "logCompletion")
  /\ \E o \in LogCompletionOutcomes, err \in BOOLEAN :
       /\ logErrors' = LogError("logCompletion", err)
       /\ logOutcome' = o
       /\ IF o = "returns"
            THEN /\ poppedContext' = contextStack[Len(contextStack)]
                 /\ contextStack' = popContext(contextStack)
                 /\ Goto("handleError")
            ELSE /\ UNCHANGED <<poppedContext, contextStack>>
                 /\ Throw(o)
  /\ UNCHANGED <<options, reactEnabled, stripFlow, res, diagnostics, context,
                 stackAtPush, idMode, serializers>>
  /\ Untouched

\* _execute, lines 89-93: log the completion; the finally pops the frame
\* whether logCompletion returned or raised.
LogCompletion ==
  /\ pc = "logCompletion"
  /\ trace' = Append(trace, "logCompletion")
  /\ poppedContext' = contextStack[Len(contextStack)]
  /\ contextStack' = popContext(contextStack)
  /\ \E o \in LogCompletionOutcomes, err \in BOOLEAN :
       /\ logErrors' = LogError("logCompletion", err)
       /\ logOutcome' = o
       /\ IF o = "returns" THEN Goto("handleError") ELSE Throw(o)
  /\ UNCHANGED <<options, reactEnabled, stripFlow, res, diagnostics, context,
                 stackAtPush, idMode, serializers>>
  /\ Untouched

\* The report of the diagnostic without the throw: _execute returns.
HandleErrorNoThrow ==
  /\ pc = "handleError"
  /\ diagnostics' =
       Append(diagnostics, [errorCode |-> "PP0016", severity |-> "FatalError"])
  /\ trace' = Append(trace, "handleError")
  /\ Goto("afterExecute")
  /\ UNCHANGED <<config, logOutcome, res, logErrors, contextStack,
                 context, stackAtPush, poppedContext, idMode, serializers>>
  /\ Untouched

\* The throw without the report of the diagnostic.
HandleErrorNoDiagnostic ==
  /\ pc = "handleError"
  /\ Throw("FatalError")
  /\ UNCHANGED <<config, logOutcome, res, logErrors, diagnostics, contextStack,
                 context, stackAtPush, poppedContext, idMode, serializers,
                 trace>>
  /\ Untouched

\* _execute, lines 94-96: report the PP0016 diagnostic, throw FatalError.
HandleError ==
  /\ pc = "handleError"
  /\ diagnostics' =
       Append(diagnostics, [errorCode |-> "PP0016", severity |-> "FatalError"])
  /\ trace' = Append(trace, "handleError")
  /\ Throw("FatalError")
  /\ UNCHANGED <<config, logOutcome, res, logErrors, contextStack,
                 context, stackAtPush, poppedContext, idMode, serializers>>
  /\ Untouched

\* The statement order of init with initializeMoreModules moved behind the
\* heap visit and its error check.
SuccessorVisitFirst(label) ==
  CASE label = "afterExecute" -> "resolveInitializedModules"
    [] label = "resolveInitializedModules" -> "checkThatFunctionsAreIndependent"
    [] label = "checkThatFunctionsAreIndependent" -> "optimizeReact"
    [] label = "optimizeReact" -> "visitHeap"
    [] label = "visitHeap" -> "initializeMoreModules"
    [] label = "initializeMoreModules" -> "valueIdentifiers"
    [] label = "valueIdentifiers" -> "heapGraph"
    [] label = "heapGraph" -> "pass1"
    [] label = "pass1" -> "finalSerialize"
    [] label = "finalSerialize" -> "generate"
    [] label = "generate" -> "return"

\* The statement order of init, lines 111-268: the statement that follows
\* the one labelled label when that one falls through.
Successor(label) ==
  CASE label = "afterExecute" -> "resolveInitializedModules"
    [] label = "resolveInitializedModules" -> "checkThatFunctionsAreIndependent"
    [] label = "checkThatFunctionsAreIndependent" -> "optimizeReact"
    [] label = "optimizeReact" -> "initializeMoreModules"
    [] label = "initializeMoreModules" -> "visitHeap"
    [] label = "visitHeap" -> "valueIdentifiers"
    [] label = "valueIdentifiers" -> "heapGraph"
    [] label = "heapGraph" -> "pass1"
    [] label = "pass1" -> "finalSerialize"
    [] label = "finalSerialize" -> "generate"
    [] label = "generate" -> "return"

\* The return of _execute without the checkpoint of line 114.
AfterExecuteNoCheck ==
  /\ pc = "afterExecute"
  /\ Goto(Successor("afterExecute"))
  /\ UNCHANGED <<config, logOutcome, res, logErrors, diagnostics,
                 contextStack, context, stackAtPush, poppedContext, idMode,
                 serializers, trace>>
  /\ AfterExecuteData

\* init, lines 111-114: _execute returned; first checkpoint of the logger.
AfterExecute ==
  /\ pc = "afterExecute"
  /\ IF hasErrors THEN ReturnUndefined ELSE Goto(Successor("afterExecute"))
  /\ UNCHANGED <<config, logOutcome, res, logErrors, diagnostics,
                 contextStack, context, stackAtPush, poppedContext, idMode,
                 serializers, trace>>
  /\ AfterExecuteData

\* init, line 115.
ResolveInitializedModules ==
  /\ pc = "resolveInitializedModules"
  /\ \E err \in BOOLEAN :
       logErrors' = LogError("resolveInitializedModules", err)
  /\ trace' = Append(trace, "resolveInitializedModules")
  /\ Goto(Successor("resolveInitializedModules"))
  /\ UNCHANGED <<config, logOutcome, res, diagnostics,
                 contextStack, context, stackAtPush, poppedContext, idMode,
                 serializers>>
  /\ Untouched

\* The independence check reporting the violation without raising.
CheckThatFunctionsAreIndependentWarns ==
  /\ pc = "checkThatFunctionsAreIndependent"
  /\ trace' = Append(trace, "checkThatFunctionsAreIndependent")
  /\ \E o \in IndependenceOutcomes, err \in BOOLEAN :
       /\ logErrors' = LogError("checkThatFunctionsAreIndependent",
                                err /\ o = "returns")
       /\ diagnostics' =
            (IF o = "returns"
               THEN diagnostics
               ELSE Append(diagnostics, [errorCode |-> "independence",
                                         severity |-> "FatalError"]))
  /\ Goto(Successor("checkThatFunctionsAreIndependent"))
  /\ UNCHANGED <<config, logOutcome, res, contextStack, context,
                 stackAtPush, poppedContext, idMode, serializers>>
  /\ IndependenceData

\* init, line 116: the independence check returns (having recorded an error
\* or not), or reports a violation and raises FatalError.
CheckThatFunctionsAreIndependent ==
  /\ pc = "checkThatFunctionsAreIndependent"
  /\ trace' = Append(trace, "checkThatFunctionsAreIndependent")
  /\ \E o \in IndependenceOutcomes, err \in BOOLEAN :
       IF o = "returns"
         THEN /\ logErrors' = LogError("checkThatFunctionsAreIndependent", err)
              /\ Goto(Successor("checkThatFunctionsAreIndependent"))
              /\ UNCHANGED diagnostics
         ELSE /\ diagnostics' =
                   Append(diagnostics, [errorCode |-> "independence",
                                        severity |-> "FatalError"])
              /\ Throw(o)
              /\ UNCHANGED logErrors
  /\ UNCHANGED <<config, logOutcome, res, contextStack, context,
                 stackAtPush, poppedContext, idMode, serializers>>
  /\ IndependenceData

\* init, lines 117-121.
OptimizeReact ==
  /\ pc = "optimizeReact"
  /\ IF reactEnabled
       THEN /\ \E err \in BOOLEAN :
                 logErrors' = LogError("optimizeReactComponentTreeRoots", err)
            /\ trace' = Append(trace, "optimizeReactComponentTreeRoots")
       ELSE UNCHANGED <<logErrors, trace>>
  /\ Goto(Successor("optimizeReact"))
  /\ UNCHANGED <<config, logOutcome, res, diagnostics,
                 contextStack, context, stackAtPush, poppedContext, idMode,
                 serializers>>
  /\ ReactData

\* The optional round without the checkpoint of line 126.
InitializeMoreModulesNoCheck ==
  /\ pc = "initializeMoreModules"
  /\ IF options.initializeMoreModules
       THEN /\ trace' = Append(trace, "initializeMoreModules")
            /\ \E err \in BOOLEAN :
                 logErrors' = LogError("initializeMoreModules", err)
       ELSE UNCHANGED <<logErrors, trace>>
  /\ Goto(Successor("initializeMoreModules"))
  /\ UNCHANGED <<config, logOutcome, res, diagnostics,
                 contextStack, context, stackAtPush, poppedContext, idMode,
                 serializers>>
  /\ InitializeMoreModulesData(FALSE)

\* The optional round with its checkpoint taken only when profiling.
InitializeMoreModulesCheckUnderProfile ==
  /\ pc = "initializeMoreModules"
  /\ IF options.initializeMoreModules
       THEN /\ trace' = Append(trace, "initializeMoreModules")
            /\ \E err \in BOOLEAN :
                 /\ logErrors' = LogError("initializeMoreModules", err)
                 /\ IF options.profile /\ logErrors' # {}
                      THEN ReturnUndefined
                      ELSE Goto(Successor("initializeMoreModules"))
       ELSE /\ UNCHANGED <<logErrors, trace>>
            /\ Goto(Successor("initializeMoreModules"))
  /\ UNCHANGED <<config, logOutcome, res, diagnostics,
                 contextStack, context, stackAtPush, poppedContext, idMode,
                 serializers>>
  /\ InitializeMoreModulesData(options.profile /\ logErrors' # {})

\* init, lines 123-129: the optional round, followed by a checkpoint.
InitializeMoreModules ==
  /\ pc = "initializeMoreModules"
  /\ IF options.initializeMoreModules
       THEN /\ trace' = Append(trace, "initializeMoreModules")
            /\ \E err \in BOOLEAN :
                 /\ logErrors' = LogError("initializeMoreModules", err)
                 /\ IF logErrors' # {}
                      THEN ReturnUndefined
                      ELSE Goto(Successor("initializeMoreModules"))
       ELSE /\ UNCHANGED <<logErrors, trace>>
            /\ Goto(Successor("initializeMoreModules"))
  /\ UNCHANGED <<config, logOutcome, res, diagnostics,
                 contextStack, context, stackAtPush, poppedContext, idMode,
                 serializers>>
  /\ InitializeMoreModulesData(logErrors' # {})

\* The heap visit with the checkpoint in front of the visitor.
VisitHeapCheckFirst ==
  /\ pc = "visitHeap"
  /\ IF hasErrors
       THEN /\ trace' = Append(trace, "getAdditionalFunctionValuesToEffects")
            /\ UNCHANGED logErrors
            /\ ReturnUndefined
       ELSE /\ trace' = trace \o <<"getAdditionalFunctionValuesToEffects",
                                   "createNameGenerator", "visitRoots">>
            /\ \E err \in BOOLEAN :
                 /\ logErrors' = LogError("visitRoots", err)
                 /\ IF logErrors' # {}
                      THEN ReturnUndefined
                      ELSE Goto(Successor("visitHeap"))
  /\ UNCHANGED <<config, logOutcome, res, diagnostics,
                 contextStack, context, stackAtPush, poppedContext, idMode,
                 serializers>>
  /\ VisitHeapData(logErrors' # {})

\* init, lines 131-155: fetch the additional functions, build the
\* referentializer (two name generators) and the visitor, visit the heap,
\* then the checkpoint.
VisitHeap ==
  /\ pc = "visitHeap"
  /\ trace' = trace \o <<"getAdditionalFunctionValuesToEffects",
                         "createNameGenerator", "visitRoots">>
  /\ \E err \in BOOLEAN :
       /\ logErrors' = LogError("visitRoots", err)
       /\ IF logErrors' # {}
            THEN ReturnUndefined
            ELSE Goto(Successor("visitHeap"))
  /\ UNCHANGED <<config, logOutcome, res, diagnostics,
                 contextStack, context, stackAtPush, poppedContext, idMode,
                 serializers>>
  /\ VisitHeapData(logErrors' # {})

\* init, lines 161-166: new ResidualHeapValueIdentifiers.
ValueIdentifiers ==
  /\ pc = "valueIdentifiers"
  /\ idMode' = "created"
  /\ Goto(Successor("valueIdentifiers"))
  /\ UNCHANGED <<config, logOutcome, res, logErrors, diagnostics,
                 contextStack, context, stackAtPush, poppedContext,
                 serializers, trace>>
  /\ Untouched

\* The heap graph export run only together with the two-pass protocol.
HeapGraphNeedsInline ==
  /\ pc = "heapGraph"
  /\ IF options.heapGraphFormat /\ options.inlineExpressions
       THEN /\ trace' = trace \o <<"heapRefCounter.visitRoots",
                                   "heapGraphGenerator.visitRoots",
                                   "generateResult">>
            /\ \E err \in BOOLEAN : logErrors' = LogError("heapGraph", err)
       ELSE UNCHANGED <<logErrors, trace>>
  /\ Goto(Successor("heapGraph"))
  /\ UNCHANGED <<config, logOutcome, res, diagnostics,
                 contextStack, context, stackAtPush, poppedContext, idMode,
                 serializers>>
  /\ Untouched

\* The heap graph export leaving the identifier table in its pass-1 mode.
HeapGraphInitPass1 ==
  /\ pc = "heapGraph"
  /\ IF options.heapGraphFormat
       THEN /\ trace' = trace \o <<"heapRefCounter.visitRoots",
                                   "heapGraphGenerator.visitRoots",
                                   "generateResult">>
            /\ \E err \in BOOLEAN : logErrors' = LogError("heapGraph", err)
            /\ idMode' = "pass1"
       ELSE UNCHANGED <<logErrors, trace, idMode>>
  /\ Goto(Successor("heapGraph"))
  /\ UNCHANGED <<config, logOutcome, res, diagnostics,
                 contextStack, context, stackAtPush, poppedContext,
                 serializers>>
  /\ Untouched

\* init, lines 168-191: the optional heap graph export.
HeapGraph ==
  /\ pc = "heapGraph"
  /\ IF options.heapGraphFormat
       THEN /\ trace' = trace \o <<"heapRefCounter.visitRoots",
                                   "heapGraphGenerator.visitRoots",
                                   "generateResult">>
            /\ \E err \in BOOLEAN : logErrors' = LogError("heapGraph", err)
       ELSE UNCHANGED <<logErrors, trace>>
  /\ Goto(Successor("heapGraph"))
  /\ UNCHANGED <<config, logOutcome, res, diagnostics,
                 contextStack, context, stackAtPush, poppedContext, idMode,
                 serializers>>
  /\ Untouched

\* Pass 1 without the checkpoint behind the dry run.
Pass1NoCheck ==
  /\ pc = "pass1"
  /\ IF options.inlineExpressions
       THEN /\ trace' = trace \o <<"initPass1", "serialize", "initPass2">>
            /\ serializers' =
                 Append(serializers,
                        NewSerializer("ResidualHeapSerializer", Pass1Arguments,
                                      "pass1"))
            /\ \E err \in BOOLEAN : logErrors' = LogError("serializePass1", err)
            /\ idMode' = "pass2"
            /\ Goto(Successor("pass1"))
       ELSE /\ UNCHANGED <<logErrors, trace, idMode, serializers>>
            /\ Goto(Successor("pass1"))
  /\ UNCHANGED <<config, logOutcome, res, diagnostics,
                 contextStack, context, stackAtPush, poppedContext>>
  /\ IF options.inlineExpressions THEN Pass1Data(FALSE) ELSE Untouched

\* Pass 1 running whether or not inlineExpressions is set.
Pass1Always ==
  /\ pc = "pass1"
  /\ serializers' =
                 Append(serializers,
                        NewSerializer("ResidualHeapSerializer", Pass1Arguments,
                                      "pass1"))
  /\ \E err \in BOOLEAN :
       /\ logErrors' = LogError("serializePass1", err)
       /\ IF logErrors' # {}
            THEN /\ trace' = trace \o <<"initPass1", "serialize">>
                 /\ idMode' = "pass1"
                 /\ ReturnUndefined
            ELSE /\ trace' = trace \o <<"initPass1", "serialize", "initPass2">>
                 /\ idMode' = "pass2"
                 /\ Goto(Successor("pass1"))
  /\ UNCHANGED <<config, logOutcome, res, diagnostics,
                 contextStack, context, stackAtPush, poppedContext>>
  /\ Pass1Data(logErrors' # {})

\* init, lines 196-222: with inlineExpressions, initPass1, the dry-run
\* serialization, the checkpoint, initPass2.
Pass1 ==
  /\ pc = "pass1"
  /\ IF options.inlineExpressions
       THEN /\ serializers' =
                 Append(serializers,
                        NewSerializer("ResidualHeapSerializer", Pass1Arguments,
                                      "pass1"))
            /\ \E err \in BOOLEAN :
                 /\ logErrors' = LogError("serializePass1", err)
                 /\ IF logErrors' # {}
                      THEN /\ trace' = trace \o <<"initPass1", "serialize">>
                           /\ idMode' = "pass1"
                           /\ ReturnUndefined
                      ELSE /\ trace' = trace \o <<"initPass1", "serialize",
                                                   "initPass2">>
                           /\ idMode' = "pass2"
                           /\ Goto(Successor("pass1"))
       ELSE /\ UNCHANGED <<logErrors, trace, idMode, serializers>>
            /\ Goto(Successor("pass1"))
  /\ UNCHANGED <<config, logOutcome, res, diagnostics,
                 contextStack, context, stackAtPush, poppedContext>>
  /\ IF options.inlineExpressions THEN Pass1Data(logErrors' # {}) ELSE Untouched

\* init, lines 225-248: select the serializer variant, run the final pass.
FinalSerialize ==
  /\ pc = "finalSerialize"
  /\ serializers' =
       Append(serializers,
              NewSerializer(TargetSerializer(options.lazyObjectsRuntime),
                            FinalArguments, idMode))
  /\ trace' = Append(trace, "serialize")
  /\ \E err \in BOOLEAN : logErrors' = LogError("serializeFinal", err)
  /\ Goto(Successor("finalSerialize"))
  /\ UNCHANGED <<config, logOutcome, res, diagnostics,
                 contextStack, context, stackAtPush, poppedContext, idMode>>
  /\ FinalSerializeData

\* init, lines 249-254: strip flow annotations if asked to, emit the text.
Generate ==
  /\ pc = "generate"
  /\ trace' = trace \o (IF stripFlow THEN <<"stripFlowTypeAnnotations">>
                                     ELSE <<>>) \o <<"generate">>
  /\ Goto(Successor("generate"))
  /\ UNCHANGED <<config, logOutcome, res, logErrors, diagnostics,
                 contextStack, context, stackAtPush, poppedContext, idMode,
                 serializers>>
  /\ GenerateData

\* The return without the invariant of line 259.
ReturnNoInvariant ==
  /\ pc = "return"
  /\ pc' = "done"
  /\ outcome' = "bundle"
  /\ bundle' = [code |-> TRUE, reactStatistics |-> reactEnabled,
                timingStats |-> timingStats,
                heapGraph |-> \E i \in DOMAIN trace :
                                trace[i] = "generateResult"]
  /\ UNCHANGED <<thrown, config, logOutcome, res, logErrors,
                 diagnostics, contextStack, context, stackAtPush,
                 poppedContext, idMode, serializers, trace>>
  /\ Untouched

\* init, lines 259-268: invariant(!this.logger.hasErrors()), then the
\* result bundle.
Return ==
  /\ pc = "return"
  /\ IF hasErrors
       THEN Throw("InvariantViolation")
       ELSE /\ pc' = "done"
            /\ outcome' = "bundle"
            /\ bundle' = [code |-> TRUE, reactStatistics |-> reactEnabled,
                          timingStats |-> timingStats,
                          heapGraph |-> \E i \in DOMAIN trace :
                                          trace[i] = "generateResult"]
            /\ UNCHANGED thrown
  /\ UNCHANGED <<config, logOutcome, res, logErrors, diagnostics,
                 contextStack, context, stackAtPush, poppedContext, idMode,
                 serializers, trace>>
  /\ Untouched

Next ==
  \/ Execute
  \/ PushContext
  \/ LogCompletion
  \/ HandleError
  \/ AfterExecute
  \/ ResolveInitializedModules
  \/ CheckThatFunctionsAreIndependent
  \/ OptimizeReact
  \/ InitializeMoreModules
  \/ VisitHeap
  \/ ValueIdentifiers
  \/ HeapGraph
  \/ Pass1
  \/ FinalSerialize
  \/ Generate
  \/ Return

Spec == Init /\ [][Next]_vars

\* init is called again on the same Serializer with the same sources: the
\* locals of init and _execute are new (timingStats among them, line 103);
\* the logger, the realm with its diagnostics, context stack and forbidden
\* names, the Functions collaborator, the environment counter and the clock
\* are those the last call left.
InitAgain ==
  /\ pc = "done"
  /\ calls < MaxCalls
  /\ calls' = calls + 1
  /\ pc' = "execute"
  /\ res' = "none"
  /\ logOutcome' = "none"
  /\ context' = 0
  /\ stackAtPush' = <<>>
  /\ poppedContext' = 0
  /\ idMode' = "none"
  /\ serializers' = <<>>
  /\ trace' = <<>>
  /\ outcome' = "running"
  /\ thrown' = "none"
  /\ bundle' = NoBundle
  /\ environmentRecordIdAfterGlobalCode' = 0
  /\ cutoffArgs' = <<>>
  /\ additionalFunctionValuesAndEffects' = {}
  /\ uidCounter' = <<>>
  /\ timingStats' = NoTiming
  /\ UNCHANGED <<config, logErrors, diagnostics, contextStack, sources,
                 nextId, laterEnvs, writeEffects, checkedFunctions,
                 forbiddenNames, generatedNames, now, cumulativeTimes>>

NextRepeat == Next \/ InitAgain

\* init called up to MaxCalls times on one Serializer.
SpecRepeat == Init /\ [][NextRepeat]_vars

(***************************************************************************)
(* Vocabulary of the properties.                                           *)
(***************************************************************************)

\* The call e has been made.
Called(e) == \E i \in DOMAIN trace : trace[i] = e

\* Number of times the call e has been made.
Count(e) == Cardinality({i \in DOMAIN trace : trace[i] = e})

\* The last call made ("" before the first).
LastCall == IF trace = <<>> THEN "" ELSE trace[Len(trace)]

\* Every call e was made before every call f.
Before(e, f) ==
  \A i, j \in DOMAIN trace : (trace[i] = e /\ trace[j] = f) => i < j

\* The calls of the phases that follow _execute in init.
LaterPhases ==
  {"resolveInitializedModules", "checkThatFunctionsAreIndependent",
   "optimizeReactComponentTreeRoots", "initializeMoreModules",
   "getAdditionalFunctionValuesToEffects", "createNameGenerator", "visitRoots",
   "heapRefCounter.visitRoots", "heapGraphGenerator.visitRoots",
   "generateResult", "initPass1", "serialize", "initPass2",
   "stripFlowTypeAnnotations", "generate"}

\* Number of PP0016 diagnostics reported through realm.handleError.
PP0016Count ==
  Cardinality({i \in DOMAIN diagnostics : diagnostics[i].errorCode = "PP0016"})

\* No phase behind _execute has been started.
NoLaterPhase == \A e \in LaterPhases : ~Called(e)

\* C1 as stated: when the global code ends in an abrupt completion, init
\* ends by raising FatalError, returns neither a bundle nor undefined, and
\* starts no later phase.
C1_AsStated ==
  (res = "abrupt" /\ pc = "done") =>
    (outcome = "throw" /\ thrown = "FatalError" /\ NoLaterPhase)

\* C1, amended: when the global code ends in an abrupt completion, init never
\* returns a bundle or undefined and starts no later phase; it ends by
\* raising FatalError if logging the completion returned, and by raising the
\* exception of logCompletion if logging raised.
C1_AbruptCompletionRaises ==
  (res = "abrupt") =>
    /\ outcome \in {"running", "throw"}
    /\ NoLaterPhase
    /\ (pc = "done") =>
         /\ outcome = "throw"
         /\ thrown = (IF logOutcome = "returns" THEN "FatalError"
                                                ELSE logOutcome)

\* C1 witness: init ended with FatalError after the completion was logged.
C1_Witness ==
  /\ pc = "done" /\ res = "abrupt" /\ logOutcome = "returns"
  /\ thrown = "FatalError" /\ Called("handleError")

\* C2 as stated: for every abrupt completion exactly one PP0016 diagnostic
\* is reported, after the completion is logged, whether logging the
\* completion succeeds or fails.
C2_AsStated ==
  (res = "abrupt" /\ pc = "done") =>
    (PP0016Count = 1 /\ Before("logCompletion", "handleError"))

\* C2, amended: for an abrupt completion whose logging returns, exactly one
\* PP0016 diagnostic of severity FatalError is reported, after logCompletion
\* and before init raises; when logCompletion raises, none is reported.  No
\* PP0016 diagnostic is reported on any other path.
C2_OneDiagnosticWhenLogged ==
  /\ (res = "abrupt" /\ pc = "done" /\ logOutcome = "returns") =>
       /\ PP0016Count = 1
       /\ Count("handleError") = 1
       /\ Count("logCompletion") = 1
       /\ Before("logCompletion", "handleError")
       /\ LastCall = "handleError"
       /\ \A i \in DOMAIN diagnostics :
            diagnostics[i].errorCode = "PP0016" =>
              diagnostics[i].severity = "FatalError"
  /\ (res = "abrupt" /\ pc = "done" /\ logOutcome # "returns") =>
       PP0016Count = 0
  /\ (res # "abrupt" \/ pc # "done") => PP0016Count = 0

\* C2 witness: the diagnostic was reported after a logged completion.
C2_Witness ==
  /\ pc = "done" /\ res = "abrupt" /\ logOutcome = "returns"
  /\ PP0016Count = 1 /\ LastCall = "handleError"

\* C3: on the abrupt-completion path the pushed context has been popped on
\* every way of leaving the try statement (logging returned or raised): the
\* context stack is what it was before the push and the popped frame is the
\* pushed one.
C3_ContextPopped ==
  (res = "abrupt" /\ pc \in {"handleError", "done"}) =>
    /\ context # 0
    /\ contextStack = stackAtPush
    /\ poppedContext = context

\* C3 witness: logging raised on a non-empty stack, and _execute was left.
C3_Witness ==
  /\ pc = "done" /\ res = "abrupt" /\ logOutcome = "Error"
  /\ stackAtPush # <<>> /\ poppedContext = context /\ context # 0

\* C4: a bundle with code is returned only with a log free of errors, and
\* undefined is returned only with a log that holds an error.
C4_ResultMatchesLog ==
  /\ (outcome = "bundle") => (bundle.code /\ ~hasErrors)
  /\ (outcome = "undefined") => (hasErrors /\ bundle = NoBundle)
  /\ (outcome # "bundle") => bundle = NoBundle

\* C4 witness: a bundle was returned after the final pass and the emitter.
C4_Witness ==
  /\ outcome = "bundle" /\ bundle.code /\ Called("generate")
  /\ Count("serialize") >= 1

\* The calls behind which init checks the log.
CheckpointCalls ==
  {"executeSources", "initializeMoreModules", "visitRoots", "serialize"}

\* The checkpoints of C5: init is past a checkpoint only with a log free of
\* errors, and it returns undefined only at a checkpoint, with errors.
C5_Checkpoints ==
  /\ (pc = "resolveInitializedModules") => ~hasErrors
  /\ (pc = "visitHeap" /\ options.initializeMoreModules) => ~hasErrors
  /\ (pc = "valueIdentifiers") => ~hasErrors
  /\ (outcome = "undefined") =>
       (hasErrors /\ LastCall \in CheckpointCalls /\ ~Called("generate"))

\* C5 as stated: the checkpoints, and an error recorded by either module
\* round makes init return undefined without raising.
C5_AsStated ==
  /\ C5_Checkpoints
  /\ (pc = "done" /\ logErrors \cap {"resolveInitializedModules",
                                     "initializeMoreModules"} # {}) =>
       (outcome = "undefined" /\ ~Called("generate"))

\* C5, amended: the checkpoints as stated.  An error recorded by
\* initializeMoreModules makes init return undefined right behind it.  An
\* error recorded by resolveInitializedModules is not checked behind that
\* round: init emits no code, and returns undefined at the next checkpoint
\* unless the independence check raises FatalError before one is reached.
C5_CheckpointsReturnNoResult ==
  /\ C5_Checkpoints
  /\ (pc = "done" /\ "initializeMoreModules" \in logErrors) =>
       (outcome = "undefined" /\ LastCall = "initializeMoreModules")
  /\ (pc = "done" /\ "resolveInitializedModules" \in logErrors) =>
       /\ ~Called("generate")
       /\ \/ outcome = "undefined"
          \/ /\ outcome = "throw" /\ thrown = "FatalError"
             /\ LastCall = "checkThatFunctionsAreIndependent"

\* C5 witness: resolveInitializedModules recorded an error and init returned
\* undefined at the checkpoint behind the heap visit.
C5_Witness ==
  /\ pc = "done" /\ outcome = "undefined"
  /\ "resolveInitializedModules" \in logErrors
  /\ LastCall = "visitRoots"

\* The calls that record errors and are followed, on every path on which
\* they return, by a checkpoint of the log.
CheckedPhases ==
  {"checkThatFunctionsAreIndependent", "optimizeReactComponentTreeRoots",
   "initializeMoreModules", "visitRoots", "serializePass1"}

\* All the phases that run after the global code completed normally.
PhasesAfterExecute ==
  CheckedPhases \cup {"resolveInitializedModules", "heapGraph",
                      "serializeFinal"}

PhasesBeforeVisit ==
  {"executeSources", "resolveInitializedModules",
   "checkThatFunctionsAreIndependent", "optimizeReactComponentTreeRoots",
   "initializeMoreModules"}

\* The calls between the checkpoint of line 114 and initializeMoreModules.
UncheckedBeforeVisit ==
  {"resolveInitializedModules", "checkThatFunctionsAreIndependent",
   "optimizeReactComponentTreeRoots"}

IsPassCall(e) == e \in {"initPass1", "serialize", "initPass2"}

\* The calls of the two-pass protocol and of the serializers, in order.
PassCalls == SelectSeq(trace, IsPassCall)

\* s is a prefix of t.
IsPrefix(s, t) == Len(s) <= Len(t) /\ s = SubSeq(t, 1, Len(s))

\* C8: with inlineExpressions the calls are initPass1, the dry run,
\* initPass2, the final pass, in this order and once each, and initPass2 and
\* the final pass happen only behind a dry run that left the log free of
\* errors; without it neither initPass1 nor initPass2 is called and exactly
\* one serialization runs.
C8_TwoPassProtocol ==
  /\ options.inlineExpressions =>
       /\ IsPrefix(PassCalls,
                   <<"initPass1", "serialize", "initPass2", "serialize">>)
       /\ Called("initPass2") => "serializePass1" \notin logErrors
       /\ (pc = "finalSerialize") => (~hasErrors /\ idMode = "pass2")
  /\ ~options.inlineExpressions =>
       /\ IsPrefix(PassCalls, <<"serialize">>)
       /\ idMode \in {"none", "created"}
  /\ (pc \in {"generate", "return"} \/ Called("generate")) =>
       PassCalls = (IF options.inlineExpressions
                      THEN <<"initPass1", "serialize", "initPass2",
                             "serialize">>
                      ELSE <<"serialize">>)

\* C8 witness: both passes ran and a bundle was returned.
C8_Witness ==
  /\ outcome = "bundle" /\ options.inlineExpressions
  /\ PassCalls = <<"initPass1", "serialize", "initPass2", "serialize">>

\* The calls that can mutate the heap graph or the environment chain.
MutatingCalls ==
  {"executeSources", "resolveInitializedModules",
   "checkThatFunctionsAreIndependent", "optimizeReactComponentTreeRoots",
   "initializeMoreModules"}

\* The positions of init from which a mutating call is still made.
MutatingPositions ==
  {"execute", "resolveInitializedModules", "checkThatFunctionsAreIndependent",
   "optimizeReact", "initializeMoreModules"}

\* C9: every call that can mutate the heap graph or the environment chain
\* is made before visitRoots, and none is made or pending once visitRoots
\* has been called.
C9_MutationBeforeVisit ==
  /\ \A e \in MutatingCalls : Before(e, "visitRoots")
  /\ Called("visitRoots") => pc \notin MutatingPositions

\* C9 witness: all five mutating phases ran, then the visitor, and init
\* returned a bundle.
C9_Witness ==
  /\ outcome = "bundle" /\ Called("visitRoots")
  /\ \A e \in MutatingCalls : Called(e)

\* C10 as stated: whenever initializeMoreModules is started, visitRoots has
\* already completed.
C10_AsStated ==
  Called("initializeMoreModules") =>
    (Called("visitRoots") /\ Before("visitRoots", "initializeMoreModules"))

\* C10, amended: the optional Initialize More Modules phase runs before
\* Visit Heap: whenever visitRoots is started with initializeMoreModules
\* set, initializeMoreModules has already completed and the log had no
\* errors at the checkpoint behind it; it is never started after visitRoots.
C10_ModulesBeforeVisit ==
  /\ (Called("visitRoots") /\ options.initializeMoreModules) =>
       /\ Count("initializeMoreModules") = 1
       /\ Before("initializeMoreModules", "visitRoots")
       /\ logErrors \cap PhasesBeforeVisit = {}
  /\ (Called("visitRoots") /\ ~options.initializeMoreModules) =>
       ~Called("initializeMoreModules")
  /\ (pc = "initializeMoreModules") => ~Called("visitRoots")

\* C10 witness: initializeMoreModules ran and the visitor ran behind it.
C10_Witness ==
  /\ Called("initializeMoreModules") /\ Called("visitRoots")
  /\ options.initializeMoreModules /\ pc = "valueIdentifiers"

\* C11: in a run without errors each optional phase runs iff its own flag
\* is set, whatever the other flags are, and the bundle holds timingStats
\* iff profile is set, heapGraph iff heapGraphFormat is set, and
\* reactStatistics iff React optimization is enabled.
C11_PhasesFollowOwnFlag ==
  (outcome = "bundle") =>
    /\ Called("initializeMoreModules") <=> options.initializeMoreModules
    /\ Called("heapRefCounter.visitRoots") <=> options.heapGraphFormat
    /\ Called("generateResult") <=> options.heapGraphFormat
    /\ Called("initPass1") <=> options.inlineExpressions
    /\ Called("stripFlowTypeAnnotations") <=> stripFlow
    /\ Called("optimizeReactComponentTreeRoots") <=> reactEnabled
    /\ (serializers[Len(serializers)].variant = "LazyObjectsSerializer")
         <=> NotNull(options.lazyObjectsRuntime)
    /\ bundle.timingStats.present <=> options.profile
    /\ bundle.heapGraph <=> options.heapGraphFormat
    /\ bundle.reactStatistics <=> reactEnabled

\* C11 witness: a bundle of a run with the heap graph export and the
\* profile, without the two-pass protocol and the module initialization.
C11_Witness ==
  /\ outcome = "bundle" /\ bundle.heapGraph /\ bundle.timingStats.present
  /\ options.heapGraphFormat /\ ~options.inlineExpressions
  /\ ~options.initializeMoreModules /\ Called("generateResult")

\* What a caller observes of a call of init: the calls made in order, the
\* way init ended, and the serializers constructed.
Observation(t, out, th, ss) ==
  [trace |-> t, outcome |-> out, thrown |-> th, serializers |-> ss]

Observed == Observation(trace, outcome, thrown, serializers)

\* The independence check reported a violation.
IndependenceViolated ==
  \E i \in DOMAIN diagnostics : diagnostics[i].errorCode = "independence"

\* The observation of a finished call of init as a function of the options
\* o, the React and Flow settings, the completion r of the global code, the
\* outcome lo of logCompletion, the calls errs that recorded an error and
\* whether the independence check reported a violation.  The function reads
\* neither o.profile nor any clock.
ReferenceRun(o, react, strip, r, lo, errs, violation) ==
  LET hit(names) ==
        errs \cap (names \ (IF o.heapGraphFormat THEN {} ELSE {"heapGraph"}))
          # {}
      t0 == <<"executeSources">>
      t1 == t0 \o <<"resolveInitializedModules",
                    "checkThatFunctionsAreIndependent">>
      t2 == t1 \o (IF react THEN <<"optimizeReactComponentTreeRoots">>
                            ELSE <<>>)
      t3 == t2 \o (IF o.initializeMoreModules
                     THEN <<"initializeMoreModules">> ELSE <<>>)
      e3 == {"resolveInitializedModules", "checkThatFunctionsAreIndependent",
             "optimizeReactComponentTreeRoots", "initializeMoreModules"}
      t4 == t3 \o <<"getAdditionalFunctionValuesToEffects",
                    "createNameGenerator", "visitRoots">>
      t5 == t4 \o (IF o.heapGraphFormat
                     THEN <<"heapRefCounter.visitRoots",
                            "heapGraphGenerator.visitRoots", "generateResult">>
                     ELSE <<>>)
      p1 == NewSerializer("ResidualHeapSerializer", Pass1Arguments, "pass1")
      t6 == t5 \o (IF o.inlineExpressions
                     THEN <<"initPass1", "serialize", "initPass2">> ELSE <<>>)
      s6 == IF o.inlineExpressions THEN <<p1>> ELSE <<>>
      s7 == Append(s6, NewSerializer(TargetSerializer(o.lazyObjectsRuntime),
                                     FinalArguments,
                                     IF o.inlineExpressions THEN "pass2"
                                                            ELSE "created"))
      t7 == t6 \o <<"serialize">>
               \o (IF strip THEN <<"stripFlowTypeAnnotations">> ELSE <<>>)
               \o <<"generate">>
  IN IF r = "abrupt"
       THEN IF lo = "returns"
              THEN Observation(t0 \o <<"pushContext", "logCompletion",
                                       "handleError">>,
                               "throw", "FatalError", <<>>)
              ELSE Observation(t0 \o <<"pushContext", "logCompletion">>,
                               "throw", lo, <<>>)
     ELSE IF hit({"executeSources"})
       THEN Observation(t0, "undefined", "none", <<>>)
     ELSE IF violation
       THEN Observation(t1, "throw", "FatalError", <<>>)
     ELSE IF o.initializeMoreModules /\ hit(e3)
       THEN Observation(t3, "undefined", "none", <<>>)
     ELSE IF hit(e3 \cup {"visitRoots"})
       THEN Observation(t4, "undefined", "none", <<>>)
     ELSE IF o.inlineExpressions /\ hit({"heapGraph", "serializePass1"})
       THEN Observation(t5 \o <<"initPass1", "serialize">>,
                        "undefined", "none", <<p1>>)
     ELSE IF hit({"heapGraph", "serializeFinal"})
       THEN Observation(t7, "throw", "InvariantViolation", s7)
     ELSE Observation(t7, "bundle", "none", s7)

\* The calls of the heap graph export.
IsGraphCall(e) ==
  e \in {"heapRefCounter.visitRoots", "heapGraphGenerator.visitRoots",
         "generateResult"}

NotGraphCall(e) == ~IsGraphCall(e)

\* The observation of this call of init with the heap graph export left out.
ObservedSansGraph ==
  Observation(SelectSeq(trace, NotGraphCall), outcome, thrown, serializers)

\* What a call of init with the same inputs and heapGraphFormat unset does.
ReferenceSansGraph ==
  ReferenceRun([options EXCEPT !.heapGraphFormat = FALSE], reactEnabled,
               stripFlow, res, logOutcome, logErrors, IndependenceViolated)

C13_ProfileObservational ==
  (pc = "done") =>
    /\ Observed = ReferenceRun([options EXCEPT !.profile = FALSE],
                               reactEnabled, stripFlow, res, logOutcome,
                               logErrors, IndependenceViolated)
    /\ [bundle EXCEPT !.timingStats = NoTiming]
         = (IF outcome = "bundle"
              THEN [code |-> TRUE, reactStatistics |-> reactEnabled,
                    timingStats |-> NoTiming,
                    heapGraph |-> options.heapGraphFormat]
              ELSE NoBundle)
    /\ bundle.timingStats.present <=> (outcome = "bundle" /\ options.profile)

\* C13 witness: a profiled run that measured time and left init at the
\* checkpoint behind initializeMoreModules.
C13_Witness ==
  /\ pc = "done" /\ options.profile /\ now > 0
  /\ outcome = "undefined" /\ LastCall = "initializeMoreModules"

\* The final serializer has been constructed.
FinalConstructed == pc \in {"generate", "return"} \/ Called("generate")

\* C14: the final pass uses the lazy variant iff lazyObjectsRuntime is
\* neither null nor undefined, the eager variant otherwise; whichever the
\* variant, it is constructed from the same arguments: the visitor's
\* outputs, the value identifier table and the referentializer.
C14_LazyIffNonNull ==
  FinalConstructed =>
    LET final == serializers[Len(serializers)]
    IN /\ final.variant =
            (IF options.lazyObjectsRuntime \in {"<null>", "<undefined>"}
               THEN "ResidualHeapSerializer"
               ELSE "LazyObjectsSerializer")
       /\ final.arguments = FinalArguments
       /\ {"residualHeapValueIdentifiers", "referentializer",
           "residualHeapVisitor.values"}
            \subseteq {final.arguments[i] : i \in DOMAIN final.arguments}

\* C14 witness: lazyObjectsRuntime left undefined, and the eager variant
\* made the final pass.
C14_Witness ==
  /\ FinalConstructed /\ options.lazyObjectsRuntime = "<undefined>"
  /\ serializers[Len(serializers)].variant = "ResidualHeapSerializer"

\* C15: the cutoff is the environment counter as the global code left it:
\* no environment of a later phase lies below it, every environment of the
\* global code does, and the independence check and the React root
\* optimization are handed that same value.
C15_OneCutoff ==
  (res = "normal" /\ pc # "afterExecute") =>
    /\ environmentRecordIdAfterGlobalCode = 1 + sources.environments
    /\ \A i \in DOMAIN cutoffArgs :
         cutoffArgs[i].cutoff = environmentRecordIdAfterGlobalCode
    /\ \A e \in laterEnvs : e >= environmentRecordIdAfterGlobalCode
    /\ laterEnvs = environmentRecordIdAfterGlobalCode..(nextId - 1)

\* C15 witness: the independence check created environments and the React
\* root optimization was handed the cutoff after it.
C15_Witness ==
  /\ Len(cutoffArgs) = 2
  /\ cutoffArgs[2].to = "optimizeReactComponentTreeRoots"
  /\ sources.environments > 0
  /\ \E e \in laterEnvs : e > environmentRecordIdAfterGlobalCode
  /\ nextId > cutoffArgs[2].cutoff

\* C16: when the independence check reports a violation, init ends by
\* raising FatalError at that call: no bundle, no heap visit, no serializer
\* constructed, no serialization pass, no code generated.
C16_ViolationIsFatal ==
  IndependenceViolated =>
    /\ pc = "done" /\ outcome = "throw" /\ thrown = "FatalError"
    /\ bundle = NoBundle
    /\ LastCall = "checkThatFunctionsAreIndependent"
    /\ ~Called("visitRoots") /\ ~Called("serialize") /\ ~Called("generate")
    /\ serializers = <<>>
    /\ additionalFunctionValuesAndEffects = {}

\* C16 witness: two functions were checked and the check reported a
\* violation.
C16_Witness ==
  /\ IndependenceViolated /\ pc = "done"
  /\ Cardinality(checkedFunctions) = 2

C18_AsStated ==
  (outcome = "bundle" /\ options.profile /\ calls > 1) =>
    \A f \in TimingFields : bundle.timingStats[f] = cumulativeTimes[f]

\* C19 as stated: every function of the mapping fetched for the visitor and
\* the serializers was covered by the independence check, and no function
\* entered the mapping after the check.
C19_AsStated ==
  Called("getAdditionalFunctionValuesToEffects") =>
    /\ additionalFunctionValuesAndEffects \subseteq checkedFunctions
    /\ writeEffects = checkedFunctions

\* C20 as stated: with inlineExpressions the dry-run serializer and the
\* final serializer are of the same variant and are constructed from the
\* same arguments; they differ in the mode of the identifier table only.
C20_AsStated ==
  (Len(serializers) = 2) =>
    /\ serializers[1].variant = serializers[2].variant
    /\ serializers[1].arguments = serializers[2].arguments
    /\ serializers[1].idMode = "pass1" /\ serializers[2].idMode = "pass2"

====
